---- MODULE Spec2Model ----
(***************************************************************************)
(* Model of flatten: the visibility filter (filter.go), the recursive      *)
(* directory walk, the summary counters, the tree diagram and the          *)
(* duplicate-aware record output (cmd/flatten/main.go).                    *)
(*                                                                         *)
(* A path string is a sequence of its "/"-separated segments: "a/b" is     *)
(* <<"a","b">>, "." is <<".">>, "./a" is <<".","a">> and the absolute      *)
(* "/w/a" is <<"","w","a">> (what splitting on "/" gives).                 *)
(***************************************************************************)
EXTENDS Integers, Sequences, FiniteSets, TLC

VARIABLES fs, pc, dir, flags, fault, filter, root, err, log, output,
          fileHashes, renders

vars == <<fs, pc, dir, flags, fault, filter, root, err, log, output,
          fileHashes, renders>>

\* Bounds of the model.
MaxNodes == 4
MaxRenders == 2

-----------------------------------------------------------------------------
(* Go values *)

NULL == [nil |-> TRUE]
NoErr == [msg |-> "", path |-> <<>>]
Error(msg, path) == [msg |-> msg, path |-> path]

-----------------------------------------------------------------------------
(* path/filepath *)

Last(s) == s[Len(s)]
IsAbs(path) == Len(path) > 0 /\ path[1] = ""

\* filepath.Clean for paths without "..": drops "." segments and empty
\* segments (other than the leading one of an absolute path).
Clean(path) ==
  LET kept == SelectSeq(path, LAMBDA s : s # "." /\ s # "")
  IN  IF IsAbs(path) THEN <<"">> \o kept
      ELSE IF kept = <<>> THEN <<".">> ELSE kept

\* filepath.Join(path, name)
Join(path, name) == Clean(path \o <<name>>)

\* filepath.Base(path): the last element of the path.
Base(path) == Last(path)

\* Segments of a cleaned path below its root marker: "." has none.
Segs(path) == SelectSeq(path, LAMBDA s : s # "." /\ s # "")

RECURSIVE CommonLen(_, _)
CommonLen(a, b) ==
  IF a = <<>> \/ b = <<>> \/ a[1] # b[1] THEN 0
  ELSE 1 + CommonLen(Tail(a), Tail(b))

\* filepath.Rel(basepath, targpath): fails when only one of them is absolute.
Rel(basepath, targpath) ==
  LET b == Segs(basepath)
      t == Segs(targpath)
      n == CommonLen(b, t)
      ups == [i \in 1..(Len(b) - n) |-> ".."]
      r == ups \o SubSeq(t, n + 1, Len(t))
  IN  IF IsAbs(basepath) # IsAbs(targpath)
        THEN [ok |-> FALSE, path |-> <<>>]
        ELSE [ok |-> TRUE, path |-> IF r = <<>> THEN <<".">> ELSE r]

\* strings.Contains(filepath.ToSlash(path), "/.git/"): some ".git" segment
\* has a separator on both sides, so it is neither the first nor the last
\* element of the split path.
ContainsGitDir(path) ==
  \E i \in 1..Len(path) : path[i] = ".git" /\ i > 1 /\ i < Len(path)

-----------------------------------------------------------------------------
(* The filesystem.  The process runs in the directory /w; fs maps the      *)
(* location of every existing entry, as its segments below /w, to its      *)
(* attributes.  <<>> is /w itself.                                         *)

Cwd == <<"", "w">>

\* File texts with their byte lengths.
TextLen == [t \in {"hello", "x", "sub\n", "sub/\n", "*\n!.git\n", "#\n"} |->
              CASE t = "hello" -> 5
                [] t = "x" -> 1
                [] t = "sub\n" -> 4
                [] t = "sub/\n" -> 5
                [] t = "*\n!.git\n" -> 8
                [] t = "#\n" -> 2]

Texts == {"hello", "x"}
IgnoreTexts == {"sub\n", "sub/\n", "*\n!.git\n", "#\n"}

\* The places where an entry may exist, and the texts a file there may hold.
FilePlaces ==
  [p \in {<<"a.txt">>, <<"b.txt">>, <<"sub", "b.txt">>} |-> Texts]
  @@ (<<".gitignore">> :> IgnoreTexts)
  @@ [p \in {<<".git", "config">>, <<".git", "hooks", "pre">>,
             <<"sub", ".git", "config">>} |-> {"hello"}]

DirPlaces == {<<"sub">>, <<".git">>, <<".git", "hooks">>, <<"sub", ".git">>}

Parent(p) == SubSeq(p, 1, Len(p) - 1)

\* Location of a path string below /w; <<"..">> stands for "not under /w".
Resolve(path) ==
  IF IsAbs(path)
    THEN LET c == Clean(path)
         IN  IF Len(c) >= Len(Cwd) /\ SubSeq(c, 1, Len(Cwd)) = Cwd
               THEN SubSeq(c, Len(Cwd) + 1, Len(c))
               ELSE <<"..">>
    ELSE Segs(path)

Exists(path) == Resolve(path) \in DOMAIN fs
Node(path) == fs[Resolve(path)]

Faulty(op, path) == fault = [op |-> op, at |-> Resolve(path)]

\* os.Stat(path) succeeds
StatOk(path) == Exists(path) /\ ~Faulty("stat", path)
\* os.ReadFile(path) succeeds
ReadFileOk(path) == Exists(path) /\ ~Node(path).isDir /\ ~Faulty("read", path)
\* os.ReadDir(path) succeeds
ReadDirOk(path) == Exists(path) /\ Node(path).isDir /\ ~Faulty("list", path)

\* All entry names, in the byte order os.ReadDir sorts its result by.
NameOrder == <<".git", ".gitignore", "a.txt", "b.txt", "config", "hooks",
               "pre", "sub">>

\* os.ReadDir(path): the names of the entries of the directory, sorted.
ReadDir(path) ==
  SelectSeq(NameOrder, LAMBDA n : Resolve(path) \o <<n>> \in DOMAIN fs)

-----------------------------------------------------------------------------
(* github.com/sabhiram/go-gitignore *)

\* The patterns an ignore file compiles to, one per rule line, in order.
Pat(name, dirOnly, negate) ==
  [name |-> name, dirOnly |-> dirOnly, negate |-> negate]

CompileIgnoreLines(text) ==
  CASE text = "sub\n" -> <<Pat("sub", FALSE, FALSE)>>
    [] text = "sub/\n" -> <<Pat("sub", TRUE, FALSE)>>
    [] text = "*\n!.git\n" -> <<Pat("*", FALSE, FALSE), Pat(".git", FALSE, TRUE)>>
    [] OTHER -> <<>>

\* A rule "name" matches a path that has name as a segment (the entry and
\* everything below it); a rule "name/" only paths below such a segment;
\* "*" stands for any one segment.
PatternMatches(p, rel) ==
  \E i \in 1..Len(rel) :
    /\ p.name = "*" \/ rel[i] = p.name
    /\ p.dirOnly => i < Len(rel)

\* GitIgnore.MatchesPath: the last matching rule decides; a negated rule
\* clears an earlier match.
RECURSIVE MatchesFrom(_, _, _, _)
MatchesFrom(patterns, rel, i, matched) ==
  IF i > Len(patterns) THEN matched
  ELSE MatchesFrom(patterns, rel, i + 1,
         IF PatternMatches(patterns[i], rel)
           THEN ~patterns[i].negate
           ELSE matched)

MatchesPath(patterns, rel) == MatchesFrom(patterns, rel, 1, FALSE)

-----------------------------------------------------------------------------
(* filter.go *)

NoFilter == [nil |-> TRUE]

\* NewFilter(dir, includeGitIgnore, includeGit): the filter, or an error
\* when the ignore file exists but cannot be compiled.
NewFilter(d, includeGitIgnore, includeGit) ==
  LET gitIgnorePath == Join(d, ".gitignore")
      f == [hasGitIgnore |-> FALSE, gitIgnore |-> <<>>,
            includeAll |-> includeGitIgnore, includeGit |-> includeGit,
            baseDir |-> d]
  IN  IF ~includeGitIgnore /\ StatOk(gitIgnorePath)
        THEN IF ReadFileOk(gitIgnorePath)
               THEN [filter |-> [f EXCEPT !.hasGitIgnore = TRUE,
                                          !.gitIgnore =
                                             CompileIgnoreLines(Node(gitIgnorePath).content)],
                     err |-> NoErr]
               ELSE [filter |-> NoFilter,
                     err |-> Error("failed to create filter", gitIgnorePath)]
        ELSE [filter |-> f, err |-> NoErr]

\* ShouldInclude with the ignore rules never consulted.
ShouldInclude_NoRules(f, path) ==
  ~(~f.includeGit /\ (Base(path) = ".git" \/ ContainsGitDir(path)))

\* Filter.ShouldInclude(path)
ShouldInclude(f, path) ==
  IF ~f.includeGit /\ (Base(path) = ".git" \/ ContainsGitDir(path)) THEN FALSE
  ELSE IF f.includeAll THEN TRUE
  ELSE IF ~f.hasGitIgnore THEN TRUE
  ELSE LET rel == Rel(f.baseDir, path)
       IN  IF ~rel.ok THEN TRUE
           ELSE ~MatchesPath(f.gitIgnore, rel.path)

-----------------------------------------------------------------------------
(* cmd/flatten/main.go: the walk *)

\* os.Stat follows symbolic links, so the mode it reports is never that of
\* a link.
FileMode(isDir) ==
  [perm |-> IF isDir THEN "drwxr-xr-x" ELSE "-rw-r--r--", symlink |-> FALSE]

FileEntry(path, info) ==
  [Path |-> path, IsDir |-> info.isDir, Size |-> info.size,
   Mode |-> FileMode(info.isDir), ModTime |-> info.mtime,
   Content |-> "", Children |-> <<>>]

Op(op, path) == [op |-> op, path |-> path]

\* loadDirectory(path, filter).  l is the record of the filesystem calls and
\* filter rejections made so far; the result carries the entry (or NULL),
\* the error (or NoErr) and the extended record.
RECURSIVE loadDirectory(_, _, _)
RECURSIVE loadChildren(_, _, _, _, _)

\* loadDirectory with the filter consulted only once the entry has been
\* read or walked.
loadDirectory_FilterLast(path, f, l) ==
  LET l1 == Append(l, Op("stat", path)) IN
  IF ~StatOk(path)
    THEN [entry |-> NULL, err |-> Error("failed to stat path", path), log |-> l1]
  ELSE
    LET info == Node(path)
        entry == FileEntry(path, info)
        drop(r) == IF r.err = NoErr /\ ~ShouldInclude(f, path)
                     THEN [entry |-> NULL, err |-> NoErr,
                           log |-> Append(r.log, Op("reject", path))]
                     ELSE r
    IN  IF ~info.isDir
          THEN LET l2 == Append(l1, Op("read", path)) IN
               IF ~ReadFileOk(path)
                 THEN [entry |-> NULL, err |-> Error("failed to read file", path),
                       log |-> l2]
                 ELSE drop([entry |-> [entry EXCEPT !.Content = info.content],
                            err |-> NoErr, log |-> l2])
          ELSE LET l2 == Append(l1, Op("list", path)) IN
               IF ~ReadDirOk(path)
                 THEN [entry |-> NULL,
                       err |-> Error("failed to read directory", path),
                       log |-> l2]
                 ELSE drop(loadChildren(entry, ReadDir(path), 1, f, l2))

\* loadDirectory with the filter asked before the stat.
loadDirectory_FilterFirst(path, f, l) ==
  IF ~ShouldInclude(f, path)
    THEN [entry |-> NULL, err |-> NoErr, log |-> Append(l, Op("reject", path))]
  ELSE
    LET l1 == Append(l, Op("stat", path)) IN
    IF ~StatOk(path)
      THEN [entry |-> NULL, err |-> Error("failed to stat path", path),
            log |-> l1]
    ELSE
      LET info == Node(path)
          entry == FileEntry(path, info)
      IN  IF ~info.isDir
            THEN LET l2 == Append(l1, Op("read", path)) IN
                 IF ~ReadFileOk(path)
                   THEN [entry |-> NULL,
                         err |-> Error("failed to read file", path), log |-> l2]
                   ELSE [entry |-> [entry EXCEPT !.Content = info.content],
                         err |-> NoErr, log |-> l2]
            ELSE LET l2 == Append(l1, Op("list", path)) IN
                 IF ~ReadDirOk(path)
                   THEN [entry |-> NULL,
                         err |-> Error("failed to read directory", path),
                         log |-> l2]
                   ELSE loadChildren(entry, ReadDir(path), 1, f, l2)

loadDirectory(path, f, l) ==
  LET l1 == Append(l, Op("stat", path)) IN
  IF ~StatOk(path)
    THEN [entry |-> NULL, err |-> Error("failed to stat path", path), log |-> l1]
  ELSE IF ~ShouldInclude(f, path)
    THEN [entry |-> NULL, err |-> NoErr, log |-> Append(l1, Op("reject", path))]
  ELSE
    LET info == Node(path)
        entry == FileEntry(path, info)
    IN  IF ~info.isDir
          THEN LET l2 == Append(l1, Op("read", path)) IN
               IF ~ReadFileOk(path)
                 THEN [entry |-> NULL, err |-> Error("failed to read file", path),
                       log |-> l2]
                 ELSE [entry |-> [entry EXCEPT !.Content = info.content],
                       err |-> NoErr, log |-> l2]
          ELSE LET l2 == Append(l1, Op("list", path)) IN
               IF ~ReadDirOk(path)
                 THEN [entry |-> NULL,
                       err |-> Error("failed to read directory", path),
                       log |-> l2]
                 ELSE loadChildren(entry, ReadDir(path), 1, f, l2)

\* The loop of loadDirectory with a child that fails left out.
loadChildren_SkipFailed(entry, entries, i, f, l) ==
  IF i > Len(entries) THEN [entry |-> entry, err |-> NoErr, log |-> l]
  ELSE LET childPath == Join(entry.Path, entries[i])
           r == loadDirectory(childPath, f, l)
       IN  loadChildren(
             IF r.entry # NULL
               THEN [entry EXCEPT !.Children = Append(@, r.entry)]
               ELSE entry,
             entries, i + 1, f, r.log)

\* The loop of loadDirectory over the listed entries, from the i-th on.
loadChildren(entry, entries, i, f, l) ==
  IF i > Len(entries) THEN [entry |-> entry, err |-> NoErr, log |-> l]
  ELSE LET childPath == Join(entry.Path, entries[i])
           r == loadDirectory(childPath, f, l)
       IN  IF r.err # NoErr
             THEN [entry |-> NULL, err |-> r.err, log |-> r.log]
             ELSE loadChildren(
                    IF r.entry # NULL
                      THEN [entry EXCEPT !.Children = Append(@, r.entry)]
                      ELSE entry,
                    entries, i + 1, f, r.log)

RECURSIVE getTotalFiles(_)

\* getTotalFiles with a directory counted as one more.
getTotalFiles_CountDirs(entry) ==
  IF ~entry.IsDir THEN 1
  ELSE LET RECURSIVE Sum(_)
           Sum(i) == IF i > Len(entry.Children) THEN 1
                     ELSE getTotalFiles(entry.Children[i]) + Sum(i + 1)
       IN  Sum(1)

\* getTotalFiles(entry)
getTotalFiles(entry) ==
  IF ~entry.IsDir THEN 1
  ELSE LET RECURSIVE Sum(_)
           Sum(i) == IF i > Len(entry.Children) THEN 0
                     ELSE getTotalFiles(entry.Children[i]) + Sum(i + 1)
       IN  Sum(1)

\* getTotalSize(entry)
RECURSIVE getTotalSize(_)
getTotalSize(entry) ==
  IF ~entry.IsDir THEN entry.Size
  ELSE LET RECURSIVE Sum(_)
           Sum(i) == IF i > Len(entry.Children) THEN 0
                     ELSE getTotalSize(entry.Children[i]) + Sum(i + 1)
       IN  Sum(1)

\* One line of the output.
Line(kind, path, text, num) ==
  [kind |-> kind, path |-> path, text |-> text, num |-> num]

\* renderDirTree(entry, prefix, isLast): the lines of the diagram.  A line
\* is prefix + marker + filepath.Base(entry.Path); the prefix is kept as the
\* sequence of its four-character pieces.
RECURSIVE renderDirTree(_, _, _)

\* renderDirTree with the prefix of the children not extended.
renderDirTree_KeepPrefix(entry, prefix, isLast) ==
  LET own == IF entry.Path # <<".">>
               THEN <<[kind |-> "tree", prefix |-> prefix,
                       marker |-> IF isLast THEN "L-- " ELSE "+-- ",
                       name |-> Base(entry.Path)]>>
               ELSE <<>>
      RECURSIVE Kids(_)
      Kids(i) == IF i > Len(entry.Children) THEN <<>>
                 ELSE renderDirTree(entry.Children[i], prefix,
                                    i = Len(entry.Children)) \o Kids(i + 1)
  IN  IF entry.IsDir THEN own \o Kids(1) ELSE own

renderDirTree(entry, prefix, isLast) ==
  LET own == IF entry.Path # <<".">>
               THEN <<[kind |-> "tree", prefix |-> prefix,
                       marker |-> IF isLast THEN "L-- " ELSE "+-- ",
                       name |-> Base(entry.Path)]>>
               ELSE <<>>
      newPrefix == IF entry.Path # <<".">>
                     THEN Append(prefix, IF isLast THEN "    " ELSE "|   ")
                     ELSE prefix
      RECURSIVE Kids(_)
      Kids(i) == IF i > Len(entry.Children) THEN <<>>
                 ELSE renderDirTree(entry.Children[i], newPrefix,
                                    i = Len(entry.Children)) \o Kids(i + 1)
  IN  IF entry.IsDir THEN own \o Kids(1) ELSE own

\* calculateFileHash(content): the hex SHA-256 digest, one per content.
calculateFileHash(content) == <<"sha256", content>>

-----------------------------------------------------------------------------
(* cmd/flatten/main.go: the records *)

\* The configuration flags of one run.
MetaFlags == {"showAllMetadata", "showLastUpdated", "showFileMode",
              "showFileSize", "showMimeType", "showSymlinks",
              "showOwnership", "showChecksum"}

\* guessMimeType(path, content): by extension, else by content sniffing;
\* every text of the model is plain ASCII text.
guessMimeType(path, content) == "text/plain; charset=utf-8"

\* printFileMetadata with the owner and group written whatever the flags.
printFileMetadata_OwnerAlways(entry, fl) ==
  LET on(flag) == fl.showAllMetadata \/ fl[flag]
      w2 == IF on("showLastUpdated")
              THEN <<Line("last updated", <<>>, "", entry.ModTime)>> ELSE <<>>
      w3 == IF on("showFileMode")
              THEN <<Line("mode", <<>>, entry.Mode.perm, 0)>> ELSE <<>>
      w4 == IF on("showFileSize")
              THEN <<Line("size", <<>>, "", entry.Size)>> ELSE <<>>
      w5 == IF on("showMimeType")
              THEN <<Line("mime-type", <<>>,
                          guessMimeType(entry.Path, entry.Content), 0)>>
              ELSE <<>>
      \* os.Readlink(entry.Path)
      w6 == IF (fl.showAllMetadata \/ (fl.showSymlinks /\ entry.Mode.symlink))
               /\ Exists(entry.Path) /\ Node(entry.Path).link # ""
              THEN <<Line("symlink-target", <<>>, Node(entry.Path).link, 0)>>
              ELSE <<>>
      \* os.Stat(entry.Path) and the user and group lookups
      w7 == IF StatOk(entry.Path)
              THEN <<Line("owner", <<>>, Node(entry.Path).owner, 0),
                     Line("group", <<>>, Node(entry.Path).group, 0)>>
              ELSE <<>>
      w8 == IF on("showChecksum")
              THEN <<[kind |-> "sha256", hash |-> calculateFileHash(entry.Content)]>>
              ELSE <<>>
  IN  w2 \o w3 \o w4 \o w5 \o w6 \o w7 \o w8

\* printFlattenedOutput, the metadata lines of a file's record (filter.go
\* 283-318), each under its flag or showAllMetadata.
printFileMetadata(entry, fl) ==
  LET on(flag) == fl.showAllMetadata \/ fl[flag]
      w2 == IF on("showLastUpdated")
              THEN <<Line("last updated", <<>>, "", entry.ModTime)>> ELSE <<>>
      w3 == IF on("showFileMode")
              THEN <<Line("mode", <<>>, entry.Mode.perm, 0)>> ELSE <<>>
      w4 == IF on("showFileSize")
              THEN <<Line("size", <<>>, "", entry.Size)>> ELSE <<>>
      w5 == IF on("showMimeType")
              THEN <<Line("mime-type", <<>>,
                          guessMimeType(entry.Path, entry.Content), 0)>>
              ELSE <<>>
      \* os.Readlink(entry.Path)
      w6 == IF (fl.showAllMetadata \/ (fl.showSymlinks /\ entry.Mode.symlink))
               /\ Exists(entry.Path) /\ Node(entry.Path).link # ""
              THEN <<Line("symlink-target", <<>>, Node(entry.Path).link, 0)>>
              ELSE <<>>
      \* os.Stat(entry.Path) and the user and group lookups
      w7 == IF on("showOwnership") /\ StatOk(entry.Path)
              THEN <<Line("owner", <<>>, Node(entry.Path).owner, 0),
                     Line("group", <<>>, Node(entry.Path).group, 0)>>
              ELSE <<>>
      w8 == IF on("showChecksum")
              THEN <<[kind |-> "sha256", hash |-> calculateFileHash(entry.Content)]>>
              ELSE <<>>
  IN  w2 \o w3 \o w4 \o w5 \o w6 \o w7 \o w8

FileHash(entry, hash) ==
  [Path |-> entry.Path, Hash |-> hash, Content |-> entry.Content]

\* printFileContent with the map entry rewritten at every duplicate.
printFileContent_Overwrite(entry, st, fl) ==
  LET hash == calculateFileHash(entry.Content)
  IN  IF fl.noFileDeduplication
        THEN [w |-> Append(st.w, Line("content", <<>>, entry.Content, 0)),
              fileHashes |-> st.fileHashes]
      ELSE IF hash \in DOMAIN st.fileHashes
        THEN [w |-> Append(st.w, Line("identical", st.fileHashes[hash].Path, "", 0)),
              fileHashes |-> [st.fileHashes EXCEPT ![hash] = FileHash(entry, hash)]]
        ELSE [w |-> Append(st.w, Line("content", <<>>, entry.Content, 0)),
              fileHashes |-> st.fileHashes @@ (hash :> FileHash(entry, hash))]

\* printFileContent with the no-dedup flag not looked at.
printFileContent_AlwaysDedup(entry, st, fl) ==
  LET hash == calculateFileHash(entry.Content)
  IN  IF hash \in DOMAIN st.fileHashes
        THEN [w |-> Append(st.w, Line("identical", st.fileHashes[hash].Path, "", 0)),
              fileHashes |-> st.fileHashes]
        ELSE [w |-> Append(st.w, Line("content", <<>>, entry.Content, 0)),
              fileHashes |-> st.fileHashes @@ (hash :> FileHash(entry, hash))]

\* printFlattenedOutput, the content part of a file's record (filter.go
\* 320-331, main.go 160-182): the full content, or the reference to the
\* first file of the same hash.  st is the builder w and the map fileHashes.
printFileContent(entry, st, fl) ==
  LET hash == calculateFileHash(entry.Content)
  IN  IF fl.noFileDeduplication
        THEN [w |-> Append(st.w, Line("content", <<>>, entry.Content, 0)),
              fileHashes |-> st.fileHashes]
      ELSE IF hash \in DOMAIN st.fileHashes
        THEN [w |-> Append(st.w, Line("identical", st.fileHashes[hash].Path, "", 0)),
              fileHashes |-> st.fileHashes]
        ELSE [w |-> Append(st.w, Line("content", <<>>, entry.Content, 0)),
              fileHashes |-> st.fileHashes @@ (hash :> FileHash(entry, hash))]

\* printFlattenedOutput, the record of one file (filter.go 280-331).  With
\* every metadata flag off it is the record of main.go 159-183.
printFile(entry, st, fl) ==
  printFileContent(entry,
                   [st EXCEPT !.w = @ \o <<Line("path", entry.Path, "", 0)>>
                                      \o printFileMetadata(entry, fl)],
                   fl)

\* printFlattenedOutput(entry, w, fileHashes)
RECURSIVE printFlattenedOutput(_, _, _)
printFlattenedOutput(entry, st, fl) ==
  IF ~entry.IsDir THEN printFile(entry, st, fl)
  ELSE LET RECURSIVE Kids(_, _)
           Kids(i, s) == IF i > Len(entry.Children) THEN s
                         ELSE Kids(i + 1,
                                   printFlattenedOutput(entry.Children[i], s, fl))
       IN  Kids(1, st)

EmptyHashes == <<>>

\* rootCmd.RunE, from the string builder to the last record: the summary,
\* the diagram and the records, with a fresh fileHashes map.
Render(r, fl) ==
  LET summary == <<Line("Total files", <<>>, "", getTotalFiles(r)),
                   Line("Total size", <<>>, "", getTotalSize(r))>>
                 \o renderDirTree(r, <<>>, FALSE)
  IN  printFlattenedOutput(r, [w |-> summary, fileHashes |-> EmptyHashes], fl)

-----------------------------------------------------------------------------
(* The runs *)

\* The directory arguments tried: ".", names below it, a path that is not
\* clean, and absolute paths.
DirArgs == {<<".">>, <<"sub">>, <<".git">>, <<".git", "hooks">>,
            <<".", ".git", "hooks">>, <<"", "w">>, <<"", "w", ".git", "hooks">>}

NoFault == [op |-> "none", at |-> <<>>]

\* A filesystem call that fails in this run: at most one, on an existing
\* entry: its stat, the read of a file or the listing of a directory.
Faults ==
  {[op |-> "stat", at |-> p] : p \in DOMAIN fs}
  \cup {[op |-> IF fs[p].isDir THEN "list" ELSE "read", at |-> p] :
          p \in DOMAIN fs}

DefaultFlags ==
  [includeGitIgnore |-> FALSE, includeGit |-> FALSE,
   noFileDeduplication |-> FALSE] @@ [m \in MetaFlags |-> FALSE]

Input(d, fl, ft) == [dir |-> d, flags |-> fl, fault |-> ft]

\* The flags that only print what the tree already holds.
TreeMetaFlags == {"showLastUpdated", "showFileMode", "showFileSize",
                  "showMimeType"}

\* The runs tried: every directory argument under every setting of the
\* filter flags; every directory argument with one failing call; the
\* rendering flags (deduplication off, a metadata flag that reads the
\* filesystem or hashes on, the other metadata flags on).
RunInputs ==
  {Input(d, [DefaultFlags EXCEPT !.includeGitIgnore = a, !.includeGit = b],
         NoFault) : d \in DirArgs, a \in BOOLEAN, b \in BOOLEAN}
  \cup {Input(d, DefaultFlags, ft) : d \in DirArgs, ft \in Faults}
  \cup {Input(d, [DefaultFlags EXCEPT !.noFileDeduplication = TRUE], NoFault) :
          d \in DirArgs}
  \cup {Input(d, [DefaultFlags EXCEPT ![m] = TRUE], NoFault) :
          d \in DirArgs, m \in MetaFlags \ TreeMetaFlags}
  \cup {Input(d, [f \in DOMAIN DefaultFlags |-> f \in TreeMetaFlags], NoFault) :
          d \in DirArgs}

NewNode(isDir, content) ==
  [isDir |-> isDir, content |-> content,
   size |-> IF isDir THEN 4096 ELSE TextLen[content],
   mtime |-> 0, owner |-> "alice", group |-> "staff", link |-> ""]

Init ==
  /\ fs = (<<>> :> NewNode(TRUE, ""))
  /\ pc = "setup"
  /\ dir = <<".">>
  /\ flags = DefaultFlags
  /\ fault = NoFault
  /\ filter = NoFilter
  /\ root = NULL
  /\ err = NoErr
  /\ log = <<>>
  /\ output = <<>>
  /\ fileHashes = EmptyHashes
  /\ renders = <<>>

CanCreate(p) ==
  /\ pc = "setup"
  /\ Cardinality(DOMAIN fs) <= MaxNodes
  /\ p \notin DOMAIN fs
  /\ Parent(p) \in DOMAIN fs
  /\ fs[Parent(p)].isDir

\* The filesystem before the run: a file appears.
CreateFile ==
  \E p \in DOMAIN FilePlaces : \E c \in FilePlaces[p] :
    /\ CanCreate(p)
    /\ fs' = fs @@ (p :> NewNode(FALSE, c))
    /\ UNCHANGED <<pc, dir, flags, fault, filter, root, err, log, output,
                   fileHashes, renders>>

\* The filesystem before the run: a directory appears.
CreateDir ==
  \E p \in DirPlaces :
    /\ CanCreate(p)
    /\ fs' = fs @@ (p :> NewNode(TRUE, ""))
    /\ UNCHANGED <<pc, dir, flags, fault, filter, root, err, log, output,
                   fileHashes, renders>>

\* rootCmd.RunE: the arguments and flags of the run are fixed.  The
\* directory named exists (a missing one is the case of a failing stat).
Start ==
  \E in \in RunInputs :
    /\ pc = "setup"
    /\ Exists(in.dir)
    /\ dir' = in.dir
    /\ flags' = in.flags
    /\ fault' = in.fault
    /\ pc' = "filter"
    /\ UNCHANGED <<fs, filter, root, err, log, output, fileHashes, renders>>

\* rootCmd.RunE: filter, err := NewFilter(dir, includeGitIgnore, includeGit)
CreateFilter ==
  /\ pc = "filter"
  /\ LET r == NewFilter(dir, flags.includeGitIgnore, flags.includeGit)
     IN  /\ filter' = r.filter
         /\ err' = r.err
         /\ pc' = IF r.err # NoErr THEN "failed" ELSE "load"
  /\ UNCHANGED <<fs, dir, flags, fault, root, log, output, fileHashes, renders>>

\* rootCmd.RunE: root, err := loadDirectory(dir, filter)
Load ==
  /\ pc = "load"
  /\ LET r == loadDirectory(dir, filter, <<>>)
     IN  /\ root' = r.entry
         /\ err' = r.err
         /\ log' = r.log
         /\ pc' = IF r.err # NoErr THEN "failed" ELSE "render"
  /\ UNCHANGED <<fs, dir, flags, fault, filter, output, fileHashes, renders>>

\* rootCmd.RunE: the output is built and printed.  getTotalFiles(root)
\* dereferences root, so a nil root ends the run in a panic before anything
\* is written.  RunE renders once; a further rendering of the same tree,
\* again from an empty map, is kept in renders for comparison.
RenderOutput ==
  /\ pc \in {"render", "done"}
  /\ Len(renders) < MaxRenders
  /\ IF root = NULL
       THEN /\ pc' = "panic"
            /\ UNCHANGED <<output, fileHashes, renders>>
       ELSE LET r == Render(root, flags)
            IN  /\ output' = IF pc = "render" THEN r.w ELSE output
                /\ fileHashes' = r.fileHashes
                /\ renders' = Append(renders, r.w)
                /\ pc' = "done"
  /\ UNCHANGED <<fs, dir, flags, fault, filter, root, err, log>>

\* The filesystem changes once, between the rendering of the run and the
\* next one.
CanChange ==
  /\ pc = "done"
  /\ Len(renders) = 1
  /\ \A p \in DOMAIN fs : fs[p].owner = "alice" /\ fs[p].link = ""

\* The filesystem after the run: chown -R bob /w.
Chown ==
  /\ CanChange
  /\ fs' = [p \in DOMAIN fs |-> [fs[p] EXCEPT !.owner = "bob"]]
  /\ UNCHANGED <<pc, dir, flags, fault, filter, root, err, log, output,
                 fileHashes, renders>>

\* The filesystem after the run: ln -sf turns the first file of the output
\* into a symbolic link to a copy of itself.
Relink ==
  /\ CanChange
  /\ \E i \in DOMAIN output :
       /\ output[i].kind = "path"
       /\ \A j \in 1..(i - 1) : output[j].kind # "path"
       /\ fs' = [fs EXCEPT ![Resolve(output[i].path)].link = "copy"]
  /\ UNCHANGED <<pc, dir, flags, fault, filter, root, err, log, output,
                 fileHashes, renders>>

Next ==
  \/ CreateFile
  \/ CreateDir
  \/ Start
  \/ CreateFilter
  \/ Load
  \/ RenderOutput
  \/ Chown
  \/ Relink

Spec == Init /\ [][Next]_vars

-----------------------------------------------------------------------------
(* Vocabulary of the properties *)

Loaded == pc \in {"render", "done", "panic"}

\* The entries of a tree, the root included.
RECURSIVE Entries(_)
Entries(e) ==
  {e} \cup UNION {Entries(e.Children[i]) : i \in DOMAIN e.Children}

\* The file entries of a tree in depth-first, children-in-listing-order
\* traversal.
RECURSIVE Files(_)
Files(e) ==
  IF ~e.IsDir THEN <<e>>
  ELSE LET RECURSIVE Cat(_)
           Cat(i) == IF i > Len(e.Children) THEN <<>>
                     ELSE Files(e.Children[i]) \o Cat(i + 1)
       IN  Cat(1)

\* The k-th record block of an output: from its k-th "path" line up to the
\* next one.
PathLines(w) == {i \in DOMAIN w : w[i].kind = "path"}
RecordStart(w, k) ==
  CHOOSE i \in PathLines(w) : Cardinality({j \in PathLines(w) : j <= i}) = k
RecordBlock(w, k) ==
  LET a == RecordStart(w, k)
      later == {j \in PathLines(w) : j > a}
      b == IF later = {} THEN Len(w)
           ELSE (CHOOSE j \in later : \A x \in later : j <= x) - 1
  IN  SubSeq(w, a, b)

ContentLines(block) == {block[i] : i \in {j \in DOMAIN block : block[j].kind = "content"}}
IdenticalLines(block) == {block[i] : i \in {j \in DOMAIN block : block[j].kind = "identical"}}
TreeLines(w) == SelectSeq(w, LAMBDA ln : ln.kind = "tree")

\* The first file of a traversal with the content hash of the i-th.
FirstWithHash(F, i) ==
  CHOOSE j \in 1..i :
    /\ calculateFileHash(F[j].Content) = calculateFileHash(F[i].Content)
    /\ \A x \in 1..(j - 1) :
         calculateFileHash(F[x].Content) # calculateFileHash(F[i].Content)

-----------------------------------------------------------------------------
(* C1 *)

\* C1: with includeGit off, no entry of the tree loadDirectory returns has
\* the base name ".git" or a path with ".git" as one of its segments.
C1_NoGitEntryInTree ==
  (Loaded /\ ~flags.includeGit /\ root # NULL) =>
    \A e \in Entries(root) :
      /\ Base(e.Path) # ".git"
      /\ \A i \in DOMAIN e.Path : e.Path[i] # ".git"

-----------------------------------------------------------------------------
(* C2 *)

\* C2: with deduplication on, the first file (in traversal order) of each
\* content hash gets its content block, every later file of that hash gets
\* a reference to the exact Path of that first file and no content block,
\* and the map entry of the hash is the one written for the first file.
C2_FirstSeenWins ==
  (pc = "done" /\ ~flags.noFileDeduplication) =>
    LET F == Files(root) IN
    /\ Cardinality(PathLines(output)) = Len(F)
    /\ \A i \in DOMAIN F :
         LET blk == RecordBlock(output, i)
             j == FirstWithHash(F, i)
             h == calculateFileHash(F[i].Content)
         IN  /\ blk[1].path = F[i].Path
             /\ IF j = i
                  THEN /\ ContentLines(blk) = {Line("content", <<>>, F[i].Content, 0)}
                       /\ IdenticalLines(blk) = {}
                  ELSE /\ IdenticalLines(blk) = {Line("identical", F[j].Path, "", 0)}
                       /\ ContentLines(blk) = {}
             /\ h \in DOMAIN fileHashes
             /\ fileHashes[h].Path = F[j].Path

\* Three files of one content have been printed: a first copy and two
\* references to it.
C2_Witness ==
  /\ pc = "done"
  /\ ~flags.noFileDeduplication
  /\ \E i \in DOMAIN Files(root) :
       /\ Cardinality({j \in 1..i : Files(root)[j].Content = Files(root)[i].Content}) = 3
       /\ IdenticalLines(RecordBlock(output, i)) # {}

-----------------------------------------------------------------------------
(* C3 *)

\* C3: whenever the input directory can be stat'ed and the walk meets no
\* failure, loadDirectory returns an entry for it, whatever the filter would
\* say of its name or path.
C3_RootAlwaysLoaded ==
  (Loaded /\ err = NoErr) => (root # NULL /\ root.Path = dir)

-----------------------------------------------------------------------------
(* C4 *)

\* The directory of the scenario, /w: a.txt and sub/b.txt hold "hello" and
\* the only rule of .gitignore excludes sub (written "sub" or "sub/"); the
\* run has default flags, names the directory as "." or "/w", and no call
\* fails.
C4_Scenario ==
  /\ pc = "done"
  /\ DOMAIN fs = {<<>>, <<"a.txt">>, <<"sub">>, <<"sub", "b.txt">>, <<".gitignore">>}
  /\ fs[<<"a.txt">>].content = "hello"
  /\ fs[<<"sub", "b.txt">>].content = "hello"
  /\ fs[<<".gitignore">>].content \in {"sub\n", "sub/\n"}
  /\ dir \in {<<".">>, <<"", "w">>}
  /\ flags = DefaultFlags
  /\ fault = NoFault

\* The names of the diagram's lines below the root's own line.
C4_TreeNames ==
  LET t == TreeLines(output)
  IN  {t[i].name : i \in {j \in DOMAIN t : t[j].prefix # <<>> \/ dir = <<".">>}}

\* C4 as stated: one file, five bytes, a diagram with the single line a.txt
\* and a single record, for a.txt, with its content.
C4_OnlyATxt ==
  C4_Scenario =>
    /\ output[1] = Line("Total files", <<>>, "", 1)
    /\ output[2] = Line("Total size", <<>>, "", 5)
    /\ C4_TreeNames = {"a.txt"}
    /\ Cardinality(PathLines(output)) = 1
    /\ Base(RecordBlock(output, 1)[1].path) = "a.txt"
    /\ ContentLines(RecordBlock(output, 1)) = {Line("content", <<>>, "hello", 0)}
    /\ \A i \in DOMAIN output : output[i].kind # "identical"

\* C4 (amended): the ignore file is itself a visible file.  Two files, five
\* bytes plus the size of .gitignore; the diagram lists .gitignore and
\* a.txt (and at most the emptied directory sub besides), never b.txt; two
\* records, .gitignore then a.txt, each with its full content, and no
\* reference line.
C4_IgnoreFileCounted ==
  C4_Scenario =>
    /\ output[1] = Line("Total files", <<>>, "", 2)
    /\ output[2] = Line("Total size", <<>>, "",
                        5 + TextLen[fs[<<".gitignore">>].content])
    /\ {".gitignore", "a.txt"} \subseteq C4_TreeNames
    /\ C4_TreeNames \subseteq {".gitignore", "a.txt", "sub"}
    /\ Cardinality(PathLines(output)) = 2
    /\ Base(RecordBlock(output, 1)[1].path) = ".gitignore"
    /\ ContentLines(RecordBlock(output, 1)) =
         {Line("content", <<>>, fs[<<".gitignore">>].content, 0)}
    /\ Base(RecordBlock(output, 2)[1].path) = "a.txt"
    /\ ContentLines(RecordBlock(output, 2)) = {Line("content", <<>>, "hello", 0)}
    /\ \A i \in DOMAIN output : output[i].kind # "identical"

\* The scenario has been run to its end.
C4_Witness == C4_Scenario /\ Len(renders) >= 1

-----------------------------------------------------------------------------
(* C5 *)

\* C5 as stated: the diagram has one line per descendant of the root and
\* none for the root, and the root's children have the empty prefix.
C5_RootNeverPrinted ==
  pc = "done" =>
    LET t == TreeLines(output) IN
    /\ Len(t) = Cardinality(Entries(root)) - 1
    /\ root.Children # <<>> =>
         /\ t[1].prefix = <<>>
         /\ t[1].name = Base(root.Children[1].Path)

\* C5 (amended): the root is left out only when its Path is exactly ".".
\* For any other directory argument the root is the first line, with the
\* marker of a non-last child and its base name, and its children carry the
\* one-piece prefix that follows such a line.
C5_RootPrintedUnlessDot ==
  pc = "done" =>
    LET t == TreeLines(output) IN
    IF root.Path = <<".">>
      THEN /\ Len(t) = Cardinality(Entries(root)) - 1
           /\ root.Children # <<>> =>
                /\ t[1].prefix = <<>>
                /\ t[1].name = Base(root.Children[1].Path)
      ELSE /\ Len(t) = Cardinality(Entries(root))
           /\ t[1] = [kind |-> "tree", prefix |-> <<>>, marker |-> "+-- ",
                      name |-> Base(root.Path)]
           /\ root.Children # <<>> =>
                /\ t[2].prefix = <<"|   ">>
                /\ t[2].name = Base(root.Children[1].Path)

\* A directory named other than "." has been drawn with a child.
C5_Witness ==
  /\ pc = "done"
  /\ root.Path # <<".">>
  /\ root.Children # <<>>
  /\ Len(TreeLines(output)) >= 2

-----------------------------------------------------------------------------
(* C6 *)

\* The filesystem calls of the walk that failed.
FailedCalls ==
  {i \in DOMAIN log : log[i].op # "reject" /\ Faulty(log[i].op, log[i].path)}

\* The ignore file of the run exists but cannot be read for compiling.
CompileFails ==
  /\ ~flags.includeGitIgnore
  /\ StatOk(Join(dir, ".gitignore"))
  /\ ~ReadFileOk(Join(dir, ".gitignore"))

\* C6: a failed stat, read or listing anywhere in the walk leaves the run
\* with an error, no entry and no output at all; a failed compilation of the
\* ignore file leaves it with an error and no filter.
C6_FailureIsFatal ==
  /\ FailedCalls # {} =>
       /\ pc = "failed"
       /\ err # NoErr
       /\ root = NULL
       /\ output = <<>> /\ renders = <<>>
  /\ (pc \notin {"setup", "filter"} /\ CompileFails) =>
       /\ pc = "failed"
       /\ err # NoErr
       /\ filter = NoFilter
       /\ root = NULL /\ log = <<>>
       /\ output = <<>> /\ renders = <<>>

\* A call failed two levels below the directory argument, after part of the
\* tree had been read.
C6_Witness ==
  /\ pc = "failed"
  /\ \E i \in FailedCalls : Len(log[i].path) >= Len(dir) + 1 /\ i >= 4
  /\ \E i \in DOMAIN log : log[i].op = "read" /\ ~Faulty("read", log[i].path)

-----------------------------------------------------------------------------
(* C7 *)

\* The path string the walk gives the entry at location p below the
\* directory argument.
WalkPath(p) ==
  IF p = Resolve(dir) THEN dir
  ELSE Clean(dir \o SubSeq(p, Len(Resolve(dir)) + 1, Len(p)))

StrictlyBelow(p, q) == Len(p) > Len(q) /\ SubSeq(p, 1, Len(q)) = q

\* The files of the filesystem that are visible under the directory
\* argument: below it, accepted by the filter, and so are all their
\* ancestors below it.
VisibleFiles ==
  {p \in DOMAIN fs :
     /\ ~fs[p].isDir
     /\ StrictlyBelow(p, Resolve(dir))
     /\ \A n \in (Len(Resolve(dir)) + 1)..Len(p) :
          ShouldInclude(filter, WalkPath(SubSeq(p, 1, n)))}

\* C7: when the build yields a tree, getTotalFiles of it is the number of
\* visible files under the directory; directories count for nothing.
C7_TotalFilesIsVisibleCount ==
  (Loaded /\ err = NoErr /\ root # NULL) =>
    getTotalFiles(root) = Cardinality(VisibleFiles)

\* A tree with a counted file, a file hidden by the filter and a directory
\* that filtering left empty.
C7_Witness ==
  /\ Loaded /\ err = NoErr /\ root # NULL
  /\ getTotalFiles(root) >= 1
  /\ \E p \in DOMAIN fs : ~fs[p].isDir /\ StrictlyBelow(p, Resolve(dir))
                          /\ p \notin VisibleFiles
  /\ \E e \in Entries(root) : e # root /\ e.IsDir /\ e.Children = <<>>
                              /\ ReadDir(e.Path) # <<>>

-----------------------------------------------------------------------------
(* C8 *)

\* C8: with deduplication off every file gets a record with its own full
\* content, no record is a reference, and the map stays empty.
C8_NoDedupFullContent ==
  (pc = "done" /\ flags.noFileDeduplication) =>
    LET F == Files(root) IN
    /\ Cardinality(PathLines(output)) = Len(F)
    /\ \A i \in DOMAIN F :
         /\ RecordBlock(output, i)[1].path = F[i].Path
         /\ ContentLines(RecordBlock(output, i)) =
              {Line("content", <<>>, F[i].Content, 0)}
    /\ \A i \in DOMAIN output : output[i].kind # "identical"
    /\ fileHashes = EmptyHashes

\* Deduplication is off and two files of equal content have been printed.
C8_Witness ==
  /\ pc = "done"
  /\ flags.noFileDeduplication
  /\ \E i, j \in DOMAIN Files(root) :
       i # j /\ Files(root)[i].Content = Files(root)[j].Content

-----------------------------------------------------------------------------
(* C9 *)

\* C9 as stated: all renderings of the tree of a run are the same text,
\* whatever the flags.
C9_RenderingsIdentical ==
  \A i, j \in DOMAIN renders : renders[i] = renders[j]

\* C9 (amended): rendering leaves the tree as it is, and the renderings of
\* a run are the same text when neither the ownership flag nor the
\* all-metadata flag is on.  (With either on, a record repeats what the
\* filesystem says of the file at rendering time.)
C9_IdenticalWithoutLiveMetadata ==
  [][(pc \in {"render", "done"} /\ root # NULL) =>
       /\ root' = root
       /\ (~flags.showOwnership /\ ~flags.showAllMetadata) =>
            \A i, j \in DOMAIN renders' : renders'[i] = renders'[j]]_vars

\* A tree with a file has been rendered twice with the symlink flag on,
\* and a file became a link in between.
C9_Witness ==
  /\ Len(renders) >= 2
  /\ flags.showSymlinks
  /\ Files(root) # <<>>
  /\ \E p \in DOMAIN fs : fs[p].link # ""

-----------------------------------------------------------------------------
(* C10 *)

\* The locations from the directory argument down to just above p.
ProperAncestors(p) ==
  {SubSeq(p, 1, n) : n \in Len(Resolve(dir))..(Len(p) - 1)}

Rejects(q) == ~ShouldInclude(filter, WalkPath(q))

\* C10: the walk makes no call on anything below a directory the filter
\* rejects, so a failing call there never fails the run, and nothing below
\* a rejected directory is in the tree.
C10_NoDescentIntoRejected ==
  filter # NoFilter =>
    /\ \A i \in DOMAIN log :
         \A q \in ProperAncestors(Resolve(log[i].path)) : ~Rejects(q)
    /\ (/\ pc \notin {"setup", "filter", "load"}
        /\ fault # NoFault
        /\ \E q \in ProperAncestors(fault.at) : Rejects(q))
         => (pc # "failed" /\ err = NoErr)
    /\ (Loaded /\ root # NULL) =>
         \A e \in Entries(root) :
           \A q \in ProperAncestors(Resolve(e.Path)) : ~Rejects(q)

\* The walk rejected a directory that has an entry whose call fails, and the
\* run went on to its output.
C10_Witness ==
  /\ pc = "done"
  /\ fault # NoFault
  /\ \E i \in DOMAIN log :
       /\ log[i].op = "reject"
       /\ Parent(fault.at) = Resolve(log[i].path)

-----------------------------------------------------------------------------
(* C11 *)

\* The stat of an entry below the directory argument fails, and every
\* directory from the argument down to the entry's parent is accepted by the
\* filter, so the walk lists that parent.
StatFailsInVisibleDir ==
  /\ filter # NoFilter
  /\ fault.op = "stat"
  /\ StrictlyBelow(fault.at, Resolve(dir))
  /\ \A q \in ProperAncestors(fault.at) : ~Rejects(q)

\* C11: the walk stats a listed entry before it asks the filter.  Every
\* rejection in the record of calls comes right after the stat of the same
\* path, and a failing stat of an entry of a visible directory fails the
\* whole build with the stat error of that entry, also when the filter
\* rejects the entry.
C11_StatBeforeFilter ==
  /\ \A i \in DOMAIN log :
       log[i].op = "reject" => (i > 1 /\ log[i - 1] = Op("stat", log[i].path))
  /\ (pc \notin {"setup", "filter", "load"} /\ StatFailsInVisibleDir) =>
       /\ pc = "failed"
       /\ err = Error("failed to stat path", WalkPath(fault.at))
       /\ root = NULL
       /\ output = <<>> /\ renders = <<>>

\* The build failed on the stat of an entry that the filter rejects.
C11_Witness ==
  /\ pc = "failed"
  /\ StatFailsInVisibleDir
  /\ Rejects(fault.at)
  /\ log # <<>> /\ log[Len(log)] = Op("stat", WalkPath(fault.at))

====
